---------------------------- MODULE Spec2Model ----------------------------
(***************************************************************************)
(* Sliding quantiles over a histogram: quern::histogram_tracked            *)
(* (include/quern/histogram_tracked.hpp), its reference scan               *)
(* find_quantile_indexes (include/quern/histogram.hpp) and the older       *)
(* edb::quantile_tracker (include/histogram_quantiles.hpp).                *)
(*                                                                         *)
(* Integer widths.  count_t is uint32_t and size_t is twice as wide.  TLC  *)
(* integers are 32 bits, so the model keeps the ratio and scales the       *)
(* widths: count_t has CountBits bits, size_t has 2*CountBits bits, and    *)
(* every C++ expression is reduced modulo the width it is computed in.     *)
(* Denominators and populations are kept small enough that no product      *)
(* wraps in the model that would not wrap in the program.                  *)
(*                                                                         *)
(* Samples.  The test drives histogram<float> with whole-valued samples    *)
(* and unit-width bins; the model's samples are integers and the binning   *)
(* is binning<floating> with step 1, so a sample v lands in bin v - min.   *)
(***************************************************************************)
EXTENDS Integers, Sequences, FiniteSets, TLC

\* ----------------------------------------------------------------- bounds
Bins         == 3      \* number of bins of the histogram (the test uses 32)
MaxPop       == 4      \* inserts are explored up to this population
CountBits    == 8      \* width of count_t in the model (uint32_t in the code)
MaxUnderflow == 1      \* removes of an absent sample explored per behaviour

CountMod == 2^CountBits          \* count_t arithmetic wraps here
SizeMod  == 2^(2*CountBits)      \* size_t arithmetic wraps here

BIN_REJECT == -1

VARIABLES
    histogram,    \* _histogram: bin index -> count_t
    population,   \* _population
    quantiles,    \* _quantiles: sequence of struct quantile
    binmin,       \* _histogram.binning()._min (fixed at construction)
    last,         \* the last call made on the engine and how it ended
    underflows    \* how many removes/replaces so far took an absent sample

vars == <<histogram, population, quantiles, binmin, last, underflows>>

\* Three of the quantiles the test tracks: the median, the median written
\* as 2/4, and the upper quartile.
p_quantiles ==
    << [num |-> 1, den |-> 2], [num |-> 2, den |-> 4], [num |-> 3, den |-> 4] >>

\* ------------------------------------------------------------- histogram
\* bin_table::bins
bins(h) == Cardinality(DOMAIN h)

\* grid::contains_index
contains_index(h, index) == index >= 0 /\ index < bins(h)

\* histogram::count_at: at_index(i, 0), zero outside the grid
count_at(h, i) == IF contains_index(h, i) THEN h[i] ELSE 0

\* histogram::calc_population: summed in count_t
RECURSIVE calc_population_from(_, _)
calc_population_from(h, i) ==
    IF i >= bins(h) THEN 0
    ELSE (h[i] + calc_population_from(h, i + 1)) % CountMod

calc_population(h) == calc_population_from(h, 0)

\* binning<floating>::index with _step = 1 on a whole-valued sample
binning_index(min, nbins, v) ==
    IF v < min \/ v >= min + nbins THEN BIN_REJECT ELSE v - min

\* bin_table::index_for: coord_to_index(coord_for(key))
index_for(h, min, v) ==
    LET c == binning_index(min, bins(h), v)
    IN  IF c < 0 \/ c >= bins(h) THEN BIN_REJECT ELSE c

\* ------------------------------------------------- quantile::adjust loops
\* while (bin+1 < size && lte*den < lte_ratio) {...; if (...) break;}
RECURSIVE slide_up(_, _, _, _)
slide_up(h, q, lte_ratio, s) ==
    IF s.bin + 1 < bins(h) /\ (s.lte * q.den) % SizeMod < lte_ratio
    THEN LET here2 == count_at(h, s.bin + 1)
             s2 == [bin           |-> s.bin + 1,
                    here          |-> here2,
                    samples_lower |-> (s.samples_lower + s.here) % CountMod,
                    lte           |-> (s.lte + here2) % SizeMod]
         IN  IF (s2.lte * q.den) % SizeMod >= lte_ratio THEN s2
             ELSE slide_up(h, q, lte_ratio, s2)
    ELSE s

\* while (bin+1 < size && h.count_at(++bin) == 0) {}
RECURSIVE skip_empty_up(_, _)
skip_empty_up(h, bin) ==
    IF bin + 1 < bins(h)
    THEN IF count_at(h, bin + 1) = 0 THEN skip_empty_up(h, bin + 1)
         ELSE bin + 1
    ELSE bin

\* while (bin > 0 && gte*den < gte_ratio) {...; if (...) break;}
RECURSIVE slide_down(_, _, _, _)
slide_down(h, q, gte_ratio, s) ==
    IF s.bin > 0 /\ (s.gte * q.den) % SizeMod < gte_ratio
    THEN LET here2 == count_at(h, s.bin - 1)
             s2 == [bin           |-> s.bin - 1,
                    here          |-> here2,
                    samples_lower |-> (s.samples_lower - here2) % CountMod,
                    gte           |-> (s.gte + here2) % SizeMod]
         IN  IF (s2.gte * q.den) % SizeMod >= gte_ratio THEN s2
             ELSE slide_down(h, q, gte_ratio, s2)
    ELSE s

\* while (bin > 0 && h.count_at(--bin) == 0) {}
RECURSIVE skip_empty_down(_, _)
skip_empty_down(h, bin) ==
    IF bin > 0
    THEN IF count_at(h, bin - 1) = 0 THEN skip_empty_down(h, bin - 1)
         ELSE bin - 1
    ELSE bin

\* the same loop with the break forgotten: lower runs down to bin 0
expand_down_no_break(h, q, lte_ratio, lower, lte) == 0

\* while (index_range.lower > 0) {lte -= h[lower]; if (...) break; --lower;}
RECURSIVE expand_down(_, _, _, _, _)
expand_down(h, q, lte_ratio, lower, lte) ==
    IF lower > 0
    THEN LET lte2 == (lte - count_at(h, lower)) % SizeMod
         IN  IF (lte2 * q.den) % SizeMod < lte_ratio THEN lower
             ELSE expand_down(h, q, lte_ratio, lower - 1, lte2)
    ELSE lower

\* the same loop with the guard upper < size: it can step past the last bin
RECURSIVE expand_up_past_end(_, _, _, _)
expand_up_past_end(h, q, gte_ratio, s) ==
    IF s.upper < bins(h)
    THEN LET gte2 == (s.gte - count_at(h, s.upper)) % SizeMod
         IN  IF (gte2 * q.den) % SizeMod < gte_ratio THEN s
             ELSE expand_up_past_end(h, q, gte_ratio,
                     [upper         |-> s.upper + 1,
                      samples_lower |-> (s.samples_lower + count_at(h, s.upper))
                                            % CountMod,
                      gte           |-> gte2])
    ELSE s

\* the same loop breaking on gte*den <= gte_ratio: it stops one tie early
RECURSIVE expand_up_strict(_, _, _, _)
expand_up_strict(h, q, gte_ratio, s) ==
    IF s.upper + 1 < bins(h)
    THEN LET gte2 == (s.gte - count_at(h, s.upper)) % SizeMod
         IN  IF (gte2 * q.den) % SizeMod <= gte_ratio THEN s
             ELSE expand_up_strict(h, q, gte_ratio,
                     [upper         |-> s.upper + 1,
                      samples_lower |-> (s.samples_lower + count_at(h, s.upper))
                                            % CountMod,
                      gte           |-> gte2])
    ELSE s

\* while (upper+1 < size) {gte -= h[upper]; if (...) break;
\*                         samples_lower += h[upper]; ++upper;}
RECURSIVE expand_up(_, _, _, _)
expand_up(h, q, gte_ratio, s) ==
    IF s.upper + 1 < bins(h)
    THEN LET gte2 == (s.gte - count_at(h, s.upper)) % SizeMod
         IN  IF (gte2 * q.den) % SizeMod < gte_ratio THEN s
             ELSE expand_up(h, q, gte_ratio,
                     [upper         |-> s.upper + 1,
                      samples_lower |-> (s.samples_lower + count_at(h, s.upper))
                                            % CountMod,
                      gte           |-> gte2])
    ELSE s

\* the split test with the denominator forgotten: lte == lte_ratio
is_split_unscaled(x, den, ratio) == x % SizeMod = ratio

\* if (lte*quantile.den == lte_ratio): the slide ended on an exact split
is_split(x, den, ratio) == (x * den) % SizeMod = ratio

\* histogram_tracked::quantile::adjust
adjust(q, h, population_) ==
    LET bin       == q.upper
        here      == count_at(h, bin)
        gte       == (population_ - q.samples_lower) % CountMod
        lte       == (here + q.samples_lower) % CountMod
        lte_ratio == (population_ * q.num) % SizeMod
        gte_ratio == (population_ * (q.den - q.num)) % SizeMod
    IN  IF (lte * q.den) % SizeMod < lte_ratio
        THEN \* slide the quantile higher
             LET s == slide_up(h, q, lte_ratio,
                        [bin |-> bin, here |-> here,
                         samples_lower |-> q.samples_lower, lte |-> lte])
                 split == is_split(s.lte, q.den, lte_ratio)
             IN  [q EXCEPT !.last_adjust   = 1,
                           !.lower         = s.bin,
                           !.samples_lower = IF split
                                THEN (s.samples_lower + s.here) % CountMod
                                ELSE s.samples_lower,
                           !.upper         = IF split
                                THEN skip_empty_up(h, s.bin) ELSE s.bin]
        ELSE IF (gte * q.den) % SizeMod < gte_ratio
        THEN \* slide the quantile lower
             LET s == slide_down(h, q, gte_ratio,
                        [bin |-> bin, here |-> here,
                         samples_lower |-> q.samples_lower, gte |-> gte])
                 split == is_split(s.gte, q.den, gte_ratio)
             IN  [q EXCEPT !.last_adjust   = -1,
                           !.upper         = s.bin,
                           !.samples_lower = s.samples_lower,
                           !.lower         = IF split
                                THEN skip_empty_down(h, s.bin) ELSE s.bin]
        ELSE \* fixed: expand the range outward from bin
             LET lo == expand_down(h, q, lte_ratio, bin, lte)
                 s  == expand_up(h, q, gte_ratio,
                        [upper |-> bin, samples_lower |-> q.samples_lower,
                         gte |-> gte])
             IN  [q EXCEPT !.last_adjust   = 0,
                           !.lower         = lo,
                           !.upper         = s.upper,
                           !.samples_lower = s.samples_lower]

\* quantile::recalculate: validate the fraction, restart from hint_index.
\* ok = FALSE stands for the std::logic_error thrown before any assignment.
invalid_quantile(q) == q.den <= 0 \/ q.num <= 0 \/ q.num >= q.den

RECURSIVE sum_below(_, _)
sum_below(h, i) ==
    IF i <= 0 THEN 0 ELSE (sum_below(h, i - 1) + count_at(h, i - 1)) % CountMod

\* if (hint_index >= size) hint_index = size - (size > 0): the bin
\* recalculate sums the counts below and starts adjust from
clamp_hint(h, hint_index) ==
    IF hint_index >= bins(h)
    THEN bins(h) - (IF bins(h) > 0 THEN 1 ELSE 0) ELSE hint_index

\* recalculate with the call of adjust left out: the quantile stays on the
\* hint
recalculate_quantile_no_adjust(q, h, population_, hint_index) ==
    IF invalid_quantile(q) THEN [ok |-> FALSE, q |-> q]
    ELSE LET size == bins(h)
             hint == IF hint_index >= size
                     THEN size - (IF size > 0 THEN 1 ELSE 0) ELSE hint_index
         IN  [ok |-> TRUE,
              q  |-> [q EXCEPT !.lower = hint, !.upper = hint,
                               !.samples_lower = sum_below(h, hint)]]

recalculate_quantile(q, h, population_, hint_index) ==
    IF invalid_quantile(q) THEN [ok |-> FALSE, q |-> q]
    ELSE LET size == bins(h)
             hint == IF hint_index >= size
                     THEN size - (IF size > 0 THEN 1 ELSE 0) ELSE hint_index
         IN  [ok |-> TRUE,
              q  |-> adjust([q EXCEPT !.lower = hint, !.upper = hint,
                                      !.samples_lower = sum_below(h, hint)],
                            h, population_)]

\* ------------------------------------------------------ reference scan
\* while (index+1 < size && leq < quota) leq += count_at(++index)*denominator
RECURSIVE scan_up(_, _, _, _, _)
scan_up(h, denominator, quota, index, leq) ==
    IF index + 1 < bins(h) /\ leq < quota
    THEN scan_up(h, denominator, quota, index + 1,
                 (leq + count_at(h, index + 1) * denominator) % CountMod)
    ELSE [index |-> index, leq |-> leq]

\* while (index+1 < size) {if (count_at(++index)) break;}
RECURSIVE scan_empty(_, _)
scan_empty(h, index) ==
    IF index + 1 < bins(h)
    THEN IF count_at(h, index + 1) # 0 THEN index + 1
         ELSE scan_empty(h, index + 1)
    ELSE index

\* find_quantile_indexes: every quantity is a Count
find_quantile_indexes(h, q) ==
    LET numerator   == q.num % CountMod
        denominator == q.den % CountMod
        quota       == (calc_population(h) * numerator) % CountMod
        leq0        == (count_at(h, 0) * denominator) % CountMod
        s           == scan_up(h, denominator, quota, 0, leq0)
    IN  [lower |-> s.index,
         upper |-> IF s.leq = quota THEN scan_empty(h, s.index) ELSE s.index]

\* edb histogram_basic::find_quantile: every quantity is a size_t, and the
\* quota is taken from the cached _population
edb_find_quantile(h, population_, numerator, denominator) ==
    LET quota == (population_ * numerator) % SizeMod
        leq0  == (count_at(h, 0) * denominator) % SizeMod
        RECURSIVE up(_, _)
        up(index, leq) ==
            IF index + 1 < bins(h) /\ leq < quota
            THEN up(index + 1,
                    (leq + count_at(h, index + 1) * denominator) % SizeMod)
            ELSE [index |-> index, leq |-> leq]
        s == up(0, leq0)
    IN  [lower |-> s.index,
         upper |-> IF s.leq = quota THEN scan_empty(h, s.index) ELSE s.index]

\* ------------------------------------------------------------ the engine
\* An engine value: the three members of histogram_tracked.
Engine == [histogram |-> histogram, population |-> population,
           quantiles |-> quantiles]

\* the comparison with <=: a sample in the upper bin counts as below it
below_or_at_upper(sample, q) == sample <= q.upper

\* new_sample < q.index_range.upper: the sample itself is compared
below_upper(sample, q) == sample < q.upper

\* histogram_tracked::insert; acc is !miss
insert(e, min, new_sample) ==
    LET i    == index_for(e.histogram, min, new_sample)
        miss == IF i = BIN_REJECT THEN 1 ELSE 0
        h2   == IF i = BIN_REJECT THEN e.histogram
                ELSE [e.histogram EXCEPT ![i] = (@ + 1) % CountMod]
        p2   == (e.population + 1) % CountMod
    IN  IF miss = 0
        THEN [histogram  |-> h2,
              population |-> p2,
              quantiles  |-> [k \in DOMAIN e.quantiles |->
                  adjust([e.quantiles[k] EXCEPT !.samples_lower =
                             IF below_upper(new_sample, e.quantiles[k])
                             THEN (@ + 1) % CountMod ELSE @],
                         h2, p2)],
              acc |-> TRUE]
        ELSE [histogram  |-> e.histogram,
              population |-> e.population,
              quantiles  |-> [k \in DOMAIN e.quantiles |->
                  [e.quantiles[k] EXCEPT !.last_adjust = -2]],
              acc |-> FALSE]

\* remove without the test of hit: a rejected sample still costs one of
\* the population
remove_without_hit(e, min, old_sample) ==
    LET i   == index_for(e.histogram, min, old_sample)
        h2  == IF i = BIN_REJECT THEN e.histogram
               ELSE [e.histogram EXCEPT ![i] = (@ - 1) % CountMod]
        p2  == (e.population - 1) % CountMod
    IN  [histogram  |-> h2,
         population |-> p2,
         quantiles  |-> [k \in DOMAIN e.quantiles |->
             adjust([e.quantiles[k] EXCEPT !.samples_lower =
                        IF below_upper(old_sample, e.quantiles[k])
                        THEN (@ - 1) % CountMod ELSE @],
                    h2, p2)],
         acc |-> i # BIN_REJECT]

\* histogram_tracked::remove; acc is hit
remove(e, min, old_sample) ==
    LET i   == index_for(e.histogram, min, old_sample)
        hit == IF i = BIN_REJECT THEN 0 ELSE 1
        h2  == IF i = BIN_REJECT THEN e.histogram
               ELSE [e.histogram EXCEPT ![i] = (@ - 1) % CountMod]
        p2  == (e.population - 1) % CountMod
    IN  IF hit # 0
        THEN [histogram  |-> h2,
              population |-> p2,
              quantiles  |-> [k \in DOMAIN e.quantiles |->
                  adjust([e.quantiles[k] EXCEPT !.samples_lower =
                             IF below_upper(old_sample, e.quantiles[k])
                             THEN (@ - 1) % CountMod ELSE @],
                         h2, p2)],
              acc |-> TRUE]
        ELSE [histogram  |-> e.histogram,
              population |-> e.population,
              quantiles  |-> [k \in DOMAIN e.quantiles |->
                  [e.quantiles[k] EXCEPT !.last_adjust = -3]],
              acc |-> FALSE]

\* the skip test of replace with the bounds of the range counted as outside
replace_skips_bounds(q, new_index, old_index) ==
    \/ (new_index >= q.upper /\ old_index >= q.upper)
    \/ (new_index <= q.lower /\ old_index <= q.lower)

\* the skip test of replace without "in the same direction"
replace_skips_any_side(q, new_index, old_index) ==
    /\ (new_index > q.upper \/ new_index < q.lower)
    /\ (old_index > q.upper \/ old_index < q.lower)

\* replace: no need to adjust if both samples are outside the quantile in
\* the same direction
replace_skips(q, new_index, old_index) ==
    \/ (new_index > q.upper /\ old_index > q.upper)
    \/ (new_index < q.lower /\ old_index < q.lower)

\* the same write with the step applied twice
add_at_index_two(h, i, d) ==
    IF contains_index(h, i) THEN [h EXCEPT ![i] = (@ + d + d) % CountMod] ELSE h

\* at_index(i, dummy) += d: the cell i when the grid contains it
add_at_index(h, i, d) ==
    IF contains_index(h, i) THEN [h EXCEPT ![i] = (@ + d) % CountMod] ELSE h

\* histogram_tracked::replace
replace(e, min, new_sample, old_sample) ==
    LET new_index == index_for(e.histogram, min, new_sample)
        old_index == index_for(e.histogram, min, old_sample)
    IN  IF new_index = BIN_REJECT THEN remove(e, min, old_sample)
        ELSE IF old_index = BIN_REJECT THEN insert(e, min, new_sample)
        ELSE IF new_index # old_index
        THEN LET h2 == add_at_index(add_at_index(e.histogram, new_sample, 1),
                                    old_sample, -1)
             IN  [histogram  |-> h2,
                  population |-> e.population,
                  quantiles  |-> [k \in DOMAIN e.quantiles |->
                      LET q == [e.quantiles[k] EXCEPT !.last_adjust = 9]
                      IN  IF replace_skips(q, new_index, old_index) THEN q
                          ELSE adjust([q EXCEPT !.samples_lower =
                                  (@ + (IF below_upper(new_sample, q)
                                        THEN 1 ELSE 0)
                                     - (IF below_upper(old_sample, q)
                                        THEN 1 ELSE 0)) % CountMod],
                                h2, e.population)],
                  acc |-> TRUE]
        ELSE [histogram  |-> e.histogram,
              population |-> e.population,
              quantiles  |-> e.quantiles,
              acc |-> TRUE]

\* the for loop of add_quantiles and of recalculate: stops at the first throw
RECURSIVE recalculate_each(_, _, _, _)
recalculate_each(qs, k, h, population_) ==
    IF k > Len(qs) THEN [ok |-> TRUE, quantiles |-> qs]
    ELSE LET r == recalculate_quantile(qs[k], h, population_, 0)
         IN  IF r.ok
             THEN recalculate_each([qs EXCEPT ![k] = r.q], k + 1, h, population_)
             ELSE [ok |-> FALSE, quantiles |-> qs]

\* histogram_tracked::recalculate
recalculate(e) ==
    LET p2 == calc_population(e.histogram)
        r  == recalculate_each(e.quantiles, 1, e.histogram, p2)
    IN  [histogram |-> e.histogram, population |-> p2,
         quantiles |-> r.quantiles, acc |-> r.ok]

\* quantile{q}: the members after the fraction are value-initialised
new_quantile(f) ==
    [num |-> f.num, den |-> f.den, lower |-> 0, upper |-> 0,
     samples_lower |-> 0, last_adjust |-> 0]

\* histogram_tracked::add_quantiles: emplace_back, then recalculate the back;
\* a throw leaves the quantile just emplaced in _quantiles
RECURSIVE add_quantiles_from(_, _, _)
add_quantiles_from(e, list, k) ==
    IF k > Len(list) THEN [e EXCEPT !.acc = TRUE]
    ELSE LET r == recalculate_quantile(new_quantile(list[k]), e.histogram,
                                       e.population, 0)
             e2 == [e EXCEPT !.quantiles = Append(@, r.q)]
         IN  IF r.ok THEN add_quantiles_from(e2, list, k + 1)
             ELSE [e2 EXCEPT !.acc = FALSE]

add_quantiles(e, list) ==
    add_quantiles_from([histogram |-> e.histogram, population |-> e.population,
                        quantiles |-> e.quantiles, acc |-> TRUE], list, 1)

\* histogram_tracked::_init_quantiles: quantile{q, {0, bins-1}}, unchecked
init_quantiles(h, list) ==
    [k \in 1..Len(list) |->
        [num |-> list[k].num, den |-> list[k].den, lower |-> 0,
         upper |-> bins(h) - 1, samples_lower |-> 0, last_adjust |-> 0]]

\* the three checks of edb::quantile_tracker's constructor, on size_t values
edb_rejects(f) ==
    LET num == f.num % SizeMod
        den == f.den % SizeMod
    IN  den = 0 \/ num = 0 \/ num > den

\* edb::quantile_tracker::quantile_tracker: check, then recalculate against
\* the empty histogram, each quantile in turn; ok = FALSE is the throw
RECURSIVE edb_quantile_tracker(_, _, _)
edb_quantile_tracker(h, list, k) ==
    IF k > Len(list) THEN [ok |-> TRUE, quantiles |-> list]
    ELSE IF edb_rejects(list[k]) THEN [ok |-> FALSE, quantiles |-> list]
    ELSE edb_quantile_tracker(h,
            [list EXCEPT ![k] = adjust([@ EXCEPT !.lower = 0, !.upper = 0,
                                                 !.samples_lower = 0], h, 0)],
            k + 1)

\* edb::quantile_tracker over histogram_basic<std::array<uint32_t, Bins>>:
\* index_t is size_t, so a negative argument arrives as a huge index
edb_index(x) == x % SizeMod

\* histogram_basic::insert / remove: return early outside the array, else
\* step the count and the population by d
histogram_basic_step(e, i, d) ==
    IF i < 0 \/ i >= bins(e.histogram) THEN e
    ELSE [e EXCEPT !.histogram[i] = (@ + d) % CountMod,
                   !.population   = (@ + d) % CountMod]

\* i < q.range.upper, as the 0 or 1 the code adds to samples_lower
edb_below_upper(i, q) == IF i < q.upper THEN 1 ELSE 0

\* the loop insert, remove and replace of edb::quantile_tracker end with:
\* samples_lower += (i < upper) - (r < upper), then adjust, for every
\* quantile; b holds the histogram after histogram_basic's part.  insert
\* passes r = size and remove passes i = size, which add nothing.
edb_adjust_each(e, b, i, r) ==
    [histogram  |-> b.histogram,
     population |-> b.population,
     quantiles  |-> [k \in DOMAIN e.quantiles |->
         adjust([e.quantiles[k] EXCEPT !.samples_lower =
                    (@ + edb_below_upper(i, e.quantiles[k])
                       - edb_below_upper(r, e.quantiles[k])) % CountMod],
                b.histogram, b.population)],
     acc |-> TRUE]

\* edb::quantile_tracker::insert
edb_insert(e, insert_index) ==
    LET i == edb_index(insert_index)
    IN  edb_adjust_each(e, histogram_basic_step(e, i, 1), i, bins(e.histogram))

\* edb::quantile_tracker::remove
edb_remove(e, remove_index) ==
    LET r == edb_index(remove_index)
    IN  edb_adjust_each(e, histogram_basic_step(e, r, -1), bins(e.histogram), r)

\* edb::quantile_tracker::replace; histogram_basic::replace is insert, remove
edb_replace(e, insert_index, remove_index) ==
    LET i == edb_index(insert_index)
        r == edb_index(remove_index)
    IN  IF i # r
        THEN edb_adjust_each(e,
                 histogram_basic_step(histogram_basic_step(e, i, 1), r, -1),
                 i, r)
        ELSE [histogram |-> e.histogram, population |-> e.population,
              quantiles |-> e.quantiles, acc |-> TRUE]

\* ------------------------------------------------------- the state machine
\* a count_t read as a signed number: a wrapped count is a negative one
Signed(c) == IF c >= CountMod \div 2 THEN c - CountMod ELSE c

\* the samples the callers pass: every bin, and one value off either end
Samples == (binmin - 1)..(binmin + Bins)

\* the call takes a sample out of a bin that holds none
takes_absent(old_sample) ==
    LET i == index_for(histogram, binmin, old_sample)
    IN  i # BIN_REJECT /\ Signed(histogram[i]) <= 0

\* which branch of replace the arguments select
replace_path(new_sample, old_sample) ==
    LET new_index == index_for(histogram, binmin, new_sample)
        old_index == index_for(histogram, binmin, old_sample)
    IN  IF new_index = BIN_REJECT THEN "remove"
        ELSE IF old_index = BIN_REJECT THEN "insert"
        ELSE IF new_index # old_index THEN "move" ELSE "same"

\* the exploration stays within MaxPop samples and MaxUnderflow underflows
Explored(e, u) ==
    /\ Signed(e.population) <= MaxPop
    /\ Signed(e.population) >= 0 - MaxUnderflow
    /\ u <= MaxUnderflow

\* last is the call just made (op) and the branch it took (path).
\* There is a histogram_tracked to call once one was constructed.
Alive ==
    last.op \in {"construct", "add_quantiles", "insert", "remove", "replace",
                 "recalculate"}

\* there is an edb::quantile_tracker to call: its constructor returned
EdbAlive ==
    /\ last.op \in {"edb_construct", "edb_insert", "edb_remove", "edb_replace"}
    /\ last.path # "throw"

\* the engine's members after a call, within the explored bounds
Update(e, op, path, absent) ==
    LET u == underflows + (IF absent THEN 1 ELSE 0)
    IN  /\ Explored(e, u)
        /\ histogram'  = e.histogram
        /\ population' = e.population
        /\ quantiles'  = e.quantiles
        /\ underflows' = u
        /\ last'       = [op |-> op, path |-> path]
        /\ UNCHANGED binmin

Step(e, op, path, absent) == Alive /\ Update(e, op, path, absent)

\* histogram_tracked(params): empty bins, no quantile yet
Init ==
    /\ histogram  = [i \in 0..(Bins - 1) |-> 0]
    /\ population = 0
    /\ quantiles  = << >>
    /\ binmin     = 0
    /\ underflows = 0
    /\ last       = [op |-> "construct", path |-> "accept"]

Insert(x) ==
    LET e == insert(Engine, binmin, x)
    IN  Step(e, "insert", IF e.acc THEN "accept" ELSE "reject", FALSE)

Remove(x) ==
    LET e == remove(Engine, binmin, x)
    IN  Step(e, "remove", IF e.acc THEN "accept" ELSE "reject",
             takes_absent(x))

Replace(x, y) ==
    LET path == replace_path(x, y)
    IN  Step(replace(Engine, binmin, x, y), "replace", path,
             path \in {"remove", "move"} /\ takes_absent(y))

Recalculate ==
    LET e == recalculate(Engine)
    IN  Step(e, "recalculate", IF e.acc THEN "accept" ELSE "throw", FALSE)

\* add_quantiles, called once on an engine that tracks nothing yet (the
\* test's constructor calls it with p_quantiles)
AddQuantiles(list) ==
    /\ Len(quantiles) = 0
    /\ LET e == add_quantiles(Engine, list)
       IN  Step(e, "add_quantiles", IF e.acc THEN "accept" ELSE "throw",
                FALSE)

Next ==
    \/ \E x \in Samples : Insert(x)
    \/ \E x \in Samples : Remove(x)
    \/ \E x \in Samples : \E y \in Samples : Replace(x, y)
    \/ Recalculate
    \/ AddQuantiles(p_quantiles)

Spec == Init /\ [][Next]_vars

\* ------------------------------------------------- the registration paths
\* the fractions callers register: 1/2 is the only valid one
RegFractions ==
    { [num |-> n, den |-> 2] : n \in {-1, 0, 1, 2, 3} }
        \cup { [num |-> 1, den |-> 0] }

\* one fraction, or a valid fraction followed by an invalid one
RegLists ==
    { <<f>> : f \in RegFractions }
        \cup { << [num |-> 1, den |-> 2], [num |-> 0, den |-> 2] >> }

\* nothing is constructed yet
InitRegister ==
    /\ histogram  = [i \in 0..(Bins - 1) |-> 0]
    /\ population = 0
    /\ quantiles  = << >>
    /\ binmin     = 0
    /\ underflows = 0
    /\ last       = [op |-> "none", path |-> "accept"]

\* histogram_tracked(params)
Construct ==
    /\ last.op = "none"
    /\ last' = [op |-> "construct", path |-> "accept"]
    /\ UNCHANGED <<histogram, population, quantiles, binmin, underflows>>

\* histogram_tracked(params, quantiles)
ConstructList(list) ==
    /\ last.op = "none"
    /\ quantiles' = init_quantiles(histogram, list)
    /\ last' = [op |-> "construct", path |-> "list"]
    /\ UNCHANGED <<histogram, population, binmin, underflows>>

\* edb::quantile_tracker(quantiles); the model follows this object no further
EdbConstruct(list) ==
    LET r == edb_quantile_tracker(histogram,
                 [k \in 1..Len(list) |-> new_quantile(list[k])], 1)
    IN  /\ last.op = "none"
        /\ quantiles' = r.quantiles
        /\ last' = [op |-> "edb_construct",
                    path |-> IF r.ok THEN "accept" ELSE "throw"]
        /\ UNCHANGED <<histogram, population, binmin, underflows>>

NextRegister ==
    \/ Construct
    \/ \E list \in RegLists : ConstructList(list)
    \/ \E list \in RegLists : EdbConstruct(list)
    \/ \E list \in RegLists : AddQuantiles(list)
    \/ \E x \in Samples : Insert(x)
    \/ \E x \in Samples : Remove(x)
    \/ Recalculate

SpecRegister == InitRegister /\ [][NextRegister]_vars

\* ---------------------------------------------- the edb::quantile_tracker
\* the index is inside the array and its bin holds no sample
edb_takes_absent(remove_index) ==
    LET r == edb_index(remove_index)
    IN  contains_index(histogram, r) /\ Signed(histogram[r]) <= 0

EdbInsert(x) ==
    EdbAlive /\ Update(edb_insert(Engine, x), "edb_insert", "return", FALSE)

EdbRemove(x) ==
    EdbAlive /\ Update(edb_remove(Engine, x), "edb_remove", "return",
                       edb_takes_absent(x))

EdbReplace(x, y) ==
    EdbAlive /\ Update(edb_replace(Engine, x, y), "edb_replace", "return",
                       edb_index(x) # edb_index(y) /\ edb_takes_absent(y))

\* a tracker constructed with the test's quantiles, then any calls
NextEdb ==
    \/ EdbConstruct(p_quantiles)
    \/ \E x \in Samples : EdbInsert(x)
    \/ \E x \in Samples : EdbRemove(x)
    \/ \E x \in Samples : \E y \in Samples : EdbReplace(x, y)

SpecEdb == InitRegister /\ [][NextEdb]_vars

\* ------------------------------------------------ the rectangular test
\* "Rectangular up to n" with n = 8: one sample per index
RectangularN == 8

\* QuantileTester(): empty bins, then add_quantiles(p_quantiles); here the
\* histogram has RectangularN bins
InitRectangular ==
    /\ LET e == add_quantiles([histogram  |-> [i \in 0..(RectangularN - 1) |-> 0],
                               population |-> 0,
                               quantiles  |-> << >>], p_quantiles)
       IN  /\ histogram  = e.histogram
           /\ population = e.population
           /\ quantiles  = e.quantiles
    /\ binmin     = 0
    /\ underflows = 0
    /\ last       = [op |-> "add_quantiles", path |-> "ascending"]

\* test.insert(i) for an index not inserted yet; the path stays "ascending"
\* while the indexes come in the order 0, 1, 2, ... of the test's loop
InsertOnce(x) ==
    /\ histogram[x] = 0
    /\ LET e == insert(Engine, binmin, x)
       IN  /\ histogram'  = e.histogram
           /\ population' = e.population
           /\ quantiles'  = e.quantiles
    /\ last' = [op   |-> "insert",
                path |-> IF last.path = "ascending" /\ x = population
                         THEN "ascending" ELSE "accept"]
    /\ UNCHANGED <<binmin, underflows>>

NextRectangular == \E x \in 0..(RectangularN - 1) : InsertOnce(x)

SpecRectangular == InitRectangular /\ [][NextRectangular]_vars

\* ------------------------------------- calls on any histogram contents
\* a count that, multiplied by a denominator of 4, no longer fits a count_t
BigCount == 2 ^ (CountBits - 2)

AnyCounts == {0, 1, 2, BigCount}

AnyFractions ==
    {[num |-> 1, den |-> 2], [num |-> 1, den |-> 4], [num |-> 3, den |-> 4],
     [num |-> 1, den |-> 3]}

\* The members of a histogram_tracked with one quantile, drawn freely: any
\* bin contents, the cached population exact or stale, the quantile's upper
\* bin anywhere in [0, size) and its samples_lower exact or stale.
AnyMembers ==
    /\ histogram \in [0..(Bins - 1) -> AnyCounts]
    /\ population \in {calc_population(histogram),
                       (calc_population(histogram) + 1) % CountMod}
    /\ \E f \in AnyFractions, u \in 0..(Bins - 1) :
         \E l \in {0, u}, s \in {sum_below(histogram, u), 0, 1} :
            quantiles = << [num |-> f.num, den |-> f.den, lower |-> l,
                            upper |-> u, samples_lower |-> s,
                            last_adjust |-> 0] >>
    /\ binmin     = 0
    /\ underflows = 0

InitAny == AnyMembers /\ last = [op |-> "any", path |-> "any"]

\* QuantileTester::consistencyCheck: TRUE when no heading is printed
consistencyCheck(e) ==
    /\ e.population = calc_population(e.histogram)
    /\ \A k \in DOMAIN e.quantiles :
          LET q        == e.quantiles[k]
              expected == find_quantile_indexes(e.histogram, q)
          IN  /\ sum_below(e.histogram, q.upper) = q.samples_lower
              /\ expected.lower = q.lower
              /\ expected.upper = q.upper

\* q.adjust(histogram, population) on the drawn members
AnyAdjust ==
    /\ last.op = "any"
    /\ quantiles' = << adjust(quantiles[1], histogram, population) >>
    /\ last' = [op |-> "adjust", path |-> "any"]
    /\ UNCHANGED <<histogram, population, binmin, underflows>>

\* recalculate() on the drawn members
AnyRecalculate ==
    /\ last.op = "any"
    /\ LET e == recalculate(Engine)
       IN  /\ histogram'  = e.histogram
           /\ population' = e.population
           /\ quantiles'  = e.quantiles
    /\ last' = [op |-> "recalculate", path |-> "any"]
    /\ UNCHANGED <<binmin, underflows>>

\* q.recalculate(histogram, population, hint_index) on the drawn members,
\* with a hint inside the histogram or one past its end
AnyRecalculateAt(hint_index) ==
    /\ last.op = "any"
    /\ quantiles' = << recalculate_quantile(quantiles[1], histogram,
                                            population, hint_index).q >>
    /\ last' = [op |-> "quantile_recalculate", path |-> "any",
                hint_index |-> hint_index]
    /\ UNCHANGED <<histogram, population, binmin, underflows>>

\* consistencyCheck() on the drawn members
AnyConsistencyCheck ==
    /\ last.op = "any"
    /\ last' = [op   |-> "consistencyCheck",
                path |-> IF consistencyCheck(Engine) THEN "consistent"
                         ELSE "inconsistent"]
    /\ UNCHANGED <<histogram, population, quantiles, binmin, underflows>>

NextAny ==
    \/ AnyAdjust
    \/ AnyRecalculate
    \/ \E hint_index \in 0..Bins : AnyRecalculateAt(hint_index)
    \/ AnyConsistencyCheck

SpecAny == InitAny /\ [][NextAny]_vars

\* ------------------------------------------ a binning with a minimum of 1
\* histogram_tracked(binning_params{1, 1 + Bins, Bins}): unit-width bins
\* whose first bin starts at 1, so a sample v lands in bin v - 1
InitBinned ==
    /\ histogram  = [i \in 0..(Bins - 1) |-> 0]
    /\ population = 0
    /\ quantiles  = << >>
    /\ binmin     = 1
    /\ underflows = 0
    /\ last       = [op |-> "construct", path |-> "accept"]

\* no bin holds more than MaxPop samples or is more than MaxUnderflow
\* below zero
CellsExplored ==
    \A i \in DOMAIN histogram :
        /\ Signed(histogram[i]) <= MaxPop
        /\ Signed(histogram[i]) >= 0 - MaxUnderflow

\* The calls are followed up to the first state in which the test's
\* consistencyCheck prints an inconsistency or a bin leaves the explored
\* counts: with this binning a replace can write a bin the population does
\* not follow.
BinnedCall == consistencyCheck(Engine) /\ CellsExplored

NextBinned ==
    \/ \E x \in Samples : BinnedCall /\ Insert(x)
    \/ \E x \in Samples : BinnedCall /\ Remove(x)
    \/ \E x \in Samples : \E y \in Samples : BinnedCall /\ Replace(x, y)
    \/ BinnedCall /\ Recalculate
    \/ BinnedCall /\ AddQuantiles(p_quantiles)

SpecBinned == InitBinned /\ [][NextBinned]_vars

\* ------------------------------------------ calls on a filled histogram
\* histogram_tracked(params), then inserts that fill the bins with any
\* counts (their sum and one more sample still a count_t), then
\* add_quantiles(p_quantiles): the test's engine on a large data set.
RECURSIVE inserts_made(_, _)
inserts_made(h, i) ==
    IF i >= bins(h) THEN 0 ELSE h[i] + inserts_made(h, i + 1)

InitFilled ==
    /\ histogram \in [0..(Bins - 1) -> AnyCounts]
    /\ inserts_made(histogram, 0) + 1 < CountMod
    /\ LET e == add_quantiles([histogram  |-> histogram,
                               population |-> inserts_made(histogram, 0),
                               quantiles  |-> << >>], p_quantiles)
       IN  /\ population = e.population
           /\ quantiles  = e.quantiles
    /\ binmin     = 0
    /\ underflows = 0
    /\ last       = [op |-> "add_quantiles", path |-> "accept"]

\* one call on the filled engine
FilledCall(e, op, path) ==
    /\ last.op = "add_quantiles"
    /\ histogram'  = e.histogram
    /\ population' = e.population
    /\ quantiles'  = e.quantiles
    /\ last'       = [op |-> op, path |-> path]
    /\ UNCHANGED <<binmin, underflows>>

FilledInsert(x) ==
    LET e == insert(Engine, binmin, x)
    IN  FilledCall(e, "insert", IF e.acc THEN "accept" ELSE "reject")

\* remove of a sample that is in the histogram
FilledRemove(x) ==
    /\ ~takes_absent(x)
    /\ LET e == remove(Engine, binmin, x)
       IN  FilledCall(e, "remove", IF e.acc THEN "accept" ELSE "reject")

\* replace of a sample that is in the histogram
FilledReplace(x, y) ==
    /\ ~takes_absent(y)
    /\ FilledCall(replace(Engine, binmin, x, y), "replace", replace_path(x, y))

NextFilled ==
    \/ \E x \in Samples : FilledInsert(x) \/ FilledRemove(x)
    \/ \E x, y \in Samples : FilledReplace(x, y)

SpecFilled == InitFilled /\ [][NextFilled]_vars

\* ------------------------------------- adjust, one loop iteration a step
\* A call q.adjust(histogram, population) in progress. last.path is the
\* place in the function, last.bin, here, lte and gte are its locals,
\* last.iterations counts the loop bodies executed and last.q0 is the
\* quantile as it was passed in. The members index_range, samples_lower and
\* last_adjust are written in place, in quantiles[1].
InitAdjust ==
    /\ AnyMembers
    /\ last = [op |-> "adjust", path |-> "call", q0 |-> quantiles[1],
               bin |-> 0, here |-> 0, lte |-> 0, gte |-> 0, iterations |-> 0]

lte_ratio_of(q) == (population * q.num) % SizeMod
gte_ratio_of(q) == (population * (q.den - q.num)) % SizeMod

\* the step writes quantile q and locals l and goes to place pc
AdjustGoto(q, l, pc) ==
    /\ quantiles' = << q >>
    /\ last' = [l EXCEPT !.path = pc]
    /\ UNCHANGED <<histogram, population, binmin, underflows>>

\* adjust restarting from bin 0, as a full scan does, whatever the range was
AdjustEnterFromZero ==
    /\ last.path = "call"
    /\ LET q    == [quantiles[1] EXCEPT !.upper = 0, !.samples_lower = 0]
           bin  == q.upper
           here == count_at(histogram, bin)
           gte  == (population - q.samples_lower) % CountMod
           lte  == (here + q.samples_lower) % CountMod
           l    == [last EXCEPT !.bin = bin, !.here = here, !.lte = lte,
                                !.gte = gte]
       IN  IF (lte * q.den) % SizeMod < lte_ratio_of(q)
           THEN AdjustGoto([q EXCEPT !.last_adjust = 1], l, "slide_up")
           ELSE IF (gte * q.den) % SizeMod < gte_ratio_of(q)
           THEN AdjustGoto([q EXCEPT !.last_adjust = -1], l, "slide_down")
           ELSE AdjustGoto([q EXCEPT !.last_adjust = 0, !.lower = bin,
                                     !.upper = bin], l, "expand_down")

\* lines 242-255 and 278, 300-305: the locals and the choice of the branch
AdjustEnter ==
    /\ last.path = "call"
    /\ LET q    == quantiles[1]
           bin  == q.upper
           here == count_at(histogram, bin)
           gte  == (population - q.samples_lower) % CountMod
           lte  == (here + q.samples_lower) % CountMod
           l    == [last EXCEPT !.bin = bin, !.here = here, !.lte = lte,
                                !.gte = gte]
       IN  IF (lte * q.den) % SizeMod < lte_ratio_of(q)
           THEN AdjustGoto([q EXCEPT !.last_adjust = 1], l, "slide_up")
           ELSE IF (gte * q.den) % SizeMod < gte_ratio_of(q)
           THEN AdjustGoto([q EXCEPT !.last_adjust = -1], l, "slide_down")
           ELSE AdjustGoto([q EXCEPT !.last_adjust = 0, !.lower = bin,
                                     !.upper = bin], l, "expand_down")

\* lines 260-267: the test and one body of the upward slide
AdjustSlideUp ==
    /\ last.path = "slide_up"
    /\ LET q == quantiles[1]
       IN  IF last.bin + 1 < bins(histogram)
                /\ (last.lte * q.den) % SizeMod < lte_ratio_of(q)
           THEN LET here2 == count_at(histogram, last.bin + 1)
                    lte2  == (last.lte + here2) % SizeMod
                IN  AdjustGoto(
                      [q EXCEPT !.samples_lower =
                                   (q.samples_lower + last.here) % CountMod],
                      [last EXCEPT !.bin = last.bin + 1, !.here = here2,
                                   !.lte = lte2,
                                   !.iterations = last.iterations + 1],
                      IF (lte2 * q.den) % SizeMod >= lte_ratio_of(q)
                      THEN "slide_up_end" ELSE "slide_up")
           ELSE AdjustGoto(q, last, "slide_up_end")

\* lines 270-274: lower, and the test of the split
AdjustSlideUpEnd ==
    /\ last.path = "slide_up_end"
    /\ LET q == quantiles[1]
       IN  IF (last.lte * q.den) % SizeMod = lte_ratio_of(q)
           THEN AdjustGoto(
                  [q EXCEPT !.lower = last.bin,
                            !.samples_lower =
                                (q.samples_lower + last.here) % CountMod],
                  last, "skip_up")
           ELSE AdjustGoto([q EXCEPT !.lower = last.bin, !.upper = last.bin],
                           last, "return")

\* the skip with the test made before the step, while (bin+1 < size &&
\* h.count_at(bin+1) == 0) ++bin: it stops on the last empty bin
AdjustSkipUpBeforeStep ==
    /\ last.path = "skip_up"
    /\ LET q == quantiles[1]
       IN  IF last.bin + 1 < bins(histogram)
                /\ count_at(histogram, last.bin + 1) = 0
           THEN AdjustGoto(q,
                  [last EXCEPT !.bin = last.bin + 1,
                               !.iterations = last.iterations + 1],
                  "skip_up")
           ELSE AdjustGoto([q EXCEPT !.upper = last.bin], last, "return")

\* lines 275-277: while (bin+1 < size && h.count_at(++bin) == 0) {}
AdjustSkipUp ==
    /\ last.path = "skip_up"
    /\ LET q == quantiles[1]
       IN  IF last.bin + 1 < bins(histogram)
           THEN IF count_at(histogram, last.bin + 1) = 0
                THEN AdjustGoto(q,
                       [last EXCEPT !.bin = last.bin + 1,
                                    !.iterations = last.iterations + 1],
                       "skip_up")
                ELSE AdjustGoto([q EXCEPT !.upper = last.bin + 1],
                                [last EXCEPT !.bin = last.bin + 1], "return")
           ELSE AdjustGoto([q EXCEPT !.upper = last.bin], last, "return")

\* the downward slide without the test bin > 0: while (gte*den < gte_ratio)
AdjustSlideDownUnguarded ==
    /\ last.path = "slide_down"
    /\ LET q == quantiles[1]
       IN  IF (last.gte * q.den) % SizeMod < gte_ratio_of(q)
           THEN LET here2 == count_at(histogram, last.bin - 1)
                    gte2  == (last.gte + here2) % SizeMod
                IN  AdjustGoto(
                      [q EXCEPT !.samples_lower =
                                   (q.samples_lower - here2) % CountMod],
                      [last EXCEPT !.bin = last.bin - 1, !.here = here2,
                                   !.gte = gte2,
                                   !.iterations = last.iterations + 1],
                      IF (gte2 * q.den) % SizeMod >= gte_ratio_of(q)
                            \/ last.bin - 1 < 0 - bins(histogram)
                      THEN "slide_down_end" ELSE "slide_down")
           ELSE AdjustGoto(q, last, "slide_down_end")

\* lines 283-290: the test and one body of the downward slide
AdjustSlideDown ==
    /\ last.path = "slide_down"
    /\ LET q == quantiles[1]
       IN  IF last.bin > 0 /\ (last.gte * q.den) % SizeMod < gte_ratio_of(q)
           THEN LET here2 == count_at(histogram, last.bin - 1)
                    gte2  == (last.gte + here2) % SizeMod
                IN  AdjustGoto(
                      [q EXCEPT !.samples_lower =
                                   (q.samples_lower - here2) % CountMod],
                      [last EXCEPT !.bin = last.bin - 1, !.here = here2,
                                   !.gte = gte2,
                                   !.iterations = last.iterations + 1],
                      IF (gte2 * q.den) % SizeMod >= gte_ratio_of(q)
                      THEN "slide_down_end" ELSE "slide_down")
           ELSE AdjustGoto(q, last, "slide_down_end")

\* lines 293-294: upper, and the test of the split
AdjustSlideDownEnd ==
    /\ last.path = "slide_down_end"
    /\ LET q == quantiles[1]
       IN  IF (last.gte * q.den) % SizeMod = gte_ratio_of(q)
           THEN AdjustGoto([q EXCEPT !.upper = last.bin], last, "skip_down")
           ELSE AdjustGoto([q EXCEPT !.upper = last.bin, !.lower = last.bin],
                           last, "return")

\* lines 295-298: while (bin > 0 && h.count_at(--bin) == 0) {}
AdjustSkipDown ==
    /\ last.path = "skip_down"
    /\ LET q == quantiles[1]
       IN  IF last.bin > 0
           THEN IF count_at(histogram, last.bin - 1) = 0
                THEN AdjustGoto(q,
                       [last EXCEPT !.bin = last.bin - 1,
                                    !.iterations = last.iterations + 1],
                       "skip_down")
                ELSE AdjustGoto([q EXCEPT !.lower = last.bin - 1],
                                [last EXCEPT !.bin = last.bin - 1], "return")
           ELSE AdjustGoto([q EXCEPT !.lower = last.bin], last, "return")

\* lines 307-312: the test and one body of the downward expansion
AdjustExpandDown ==
    /\ last.path = "expand_down"
    /\ LET q == quantiles[1]
       IN  IF q.lower > 0
           THEN LET lte2 == (last.lte - count_at(histogram, q.lower)) % SizeMod
                    l    == [last EXCEPT !.lte = lte2,
                                         !.iterations = last.iterations + 1]
                IN  IF (lte2 * q.den) % SizeMod < lte_ratio_of(q)
                    THEN AdjustGoto(q, l, "expand_up")
                    ELSE AdjustGoto([q EXCEPT !.lower = q.lower - 1], l,
                                    "expand_down")
           ELSE AdjustGoto(q, last, "expand_up")

\* the upward expansion with ++index_range.upper forgotten (the count of
\* loop bodies is followed up to size() + 1)
AdjustExpandUpStuck ==
    /\ last.path = "expand_up"
    /\ LET q == quantiles[1]
       IN  IF q.upper + 1 < bins(histogram)
           THEN LET gte2 == (last.gte - count_at(histogram, q.upper)) % SizeMod
                    l    == [last EXCEPT !.gte = gte2,
                                !.iterations =
                                    IF last.iterations > bins(histogram)
                                    THEN last.iterations
                                    ELSE last.iterations + 1]
                IN  IF (gte2 * q.den) % SizeMod < gte_ratio_of(q)
                    THEN AdjustGoto(q, l, "return")
                    ELSE AdjustGoto(
                           [q EXCEPT !.samples_lower =
                                        (q.samples_lower
                                           + count_at(histogram, q.upper))
                                        % CountMod],
                           l, "expand_up")
           ELSE AdjustGoto(q, last, "return")

\* lines 313-319: the test and one body of the upward expansion
AdjustExpandUp ==
    /\ last.path = "expand_up"
    /\ LET q == quantiles[1]
       IN  IF q.upper + 1 < bins(histogram)
           THEN LET gte2 == (last.gte - count_at(histogram, q.upper)) % SizeMod
                    l    == [last EXCEPT !.gte = gte2,
                                         !.iterations = last.iterations + 1]
                IN  IF (gte2 * q.den) % SizeMod < gte_ratio_of(q)
                    THEN AdjustGoto(q, l, "return")
                    ELSE AdjustGoto(
                           [q EXCEPT !.upper = q.upper + 1,
                                     !.samples_lower =
                                        (q.samples_lower
                                           + count_at(histogram, q.upper))
                                        % CountMod],
                           l, "expand_up")
           ELSE AdjustGoto(q, last, "return")

NextAdjust ==
    \/ AdjustEnter
    \/ AdjustSlideUp \/ AdjustSlideUpEnd \/ AdjustSkipUp
    \/ AdjustSlideDown \/ AdjustSlideDownEnd \/ AdjustSkipDown
    \/ AdjustExpandDown \/ AdjustExpandUp

SpecAdjust == InitAdjust /\ [][NextAdjust]_vars

\* the function runs on until it returns: nothing else is scheduled
SpecAdjustFair == SpecAdjust /\ WF_vars(NextAdjust)

\* ------------------------------------ adjust on the rectangular histogram
\* An adjust call on an engine of RectangularN bins whose bins hold at most
\* one sample each before the call. The quantile is where
\* quantile::recalculate puts it for those counts h0, and the call is a
\* second adjust with no mutation before it, or the adjust insert(x) makes
\* after stepping the count, the population and samples_lower, or the
\* adjust quantile::recalculate makes from a hint bin.
WideFractions == {[num |-> 1, den |-> 2], [num |-> 3, den |-> 4]}

WideMembers(h, population_, q) ==
    /\ histogram  = h
    /\ population = population_
    /\ quantiles  = << q >>

InitAdjustWide ==
    /\ \E h0 \in [0..(RectangularN - 1) -> {0, 1}], f \in WideFractions :
          LET p0 == calc_population(h0)
              q0 == recalculate_quantile(new_quantile(f), h0, p0, 0).q
          IN  \/ WideMembers(h0, p0, q0)
              \/ \E x \in 0..(RectangularN - 1) :
                    WideMembers([h0 EXCEPT ![x] = (@ + 1) % CountMod],
                                (p0 + 1) % CountMod,
                                [q0 EXCEPT !.samples_lower =
                                    IF below_upper(x, q0)
                                    THEN (@ + 1) % CountMod ELSE @])
              \/ \E hint_index \in 0..(RectangularN - 1) :
                    WideMembers(h0, p0,
                                [q0 EXCEPT !.lower = hint_index,
                                           !.upper = hint_index,
                                           !.samples_lower =
                                               sum_below(h0, hint_index)])
    /\ binmin     = 0
    /\ underflows = 0
    /\ last = [op |-> "adjust", path |-> "call", q0 |-> quantiles[1],
               bin |-> 0, here |-> 0, lte |-> 0, gte |-> 0, iterations |-> 0]

SpecAdjustWide == InitAdjustWide /\ [][NextAdjust]_vars

\* ------------------------------------------------------------ properties
Tracked == DOMAIN quantiles

\* the range a quantile holds is the one the reference scan returns
MatchesScan(q) ==
    LET expected == find_quantile_indexes(histogram, q)
    IN  expected.lower = q.lower /\ expected.upper = q.upper

\* the number of samples in the bins below bin i, as a plain sum
RECURSIVE SamplesBelow(_, _)
SamplesBelow(h, i) ==
    IF i <= 0 THEN 0 ELSE SamplesBelow(h, i - 1) + count_at(h, i - 1)

\* every remove and replace so far took a sample that was in the histogram
Intact == underflows = 0

Mutated == last.op \in {"insert", "remove", "replace"}

\* C1 (equivalence): while every remove and replace has taken a sample that
\* was present, after each insert, remove and replace every tracked
\* quantile's index_range is the range find_quantile_indexes returns for the
\* current histogram.
C1_Equivalence ==
    (Intact /\ Mutated) => \A k \in Tracked : MatchesScan(quantiles[k])

\* a replace has just moved a sample and left the median on a split range
C1_Witness ==
    /\ Intact /\ last.op = "replace" /\ last.path = "move"
    /\ Len(quantiles) > 0 /\ population = MaxPop
    /\ quantiles[1].lower < quantiles[1].upper
    /\ MatchesScan(quantiles[1])

\* C2 (samples_lower): after every call, every tracked quantile's
\* samples_lower is the sum of the counts of the bins below index_range.upper.
C2_SamplesLower ==
    \A k \in Tracked :
        quantiles[k].samples_lower = SamplesBelow(histogram, quantiles[k].upper)

\* C3 (population): after every call, accepted or rejected, the cached
\* population is what calc_population returns for the histogram.
C3_Population == population = calc_population(histogram)

\* two quantile sequences agree on index_range and samples_lower
SameQuantiles(qs1, qs2) ==
    /\ Len(qs1) = Len(qs2)
    /\ \A k \in DOMAIN qs1 :
          /\ qs1[k].lower = qs2[k].lower
          /\ qs1[k].upper = qs2[k].upper
          /\ qs1[k].samples_lower = qs2[k].samples_lower

\* the step changed no count, not the population, no range, no samples_lower
NothingChanged ==
    /\ histogram' = histogram
    /\ population' = population
    /\ SameQuantiles(quantiles', quantiles)

\* the sample lies within the bins: min <= x < min + size
InRange(x) == x >= binmin /\ x < binmin + Bins

\* the bin a sample within the bins lands in
BinOf(x) == x - binmin

\* C2 holds as long as no remove or replace has taken an absent sample
C2_WhenIntact == Intact => C2_SamplesLower

\* population and histogram agree right after a rejected call and right
\* after a replace that moved a sample
C3_Witness ==
    /\ population > 0 /\ Len(quantiles) > 0
    /\ \/ last.path = "reject"
       \/ (last.op = "replace" /\ last.path = "move")

\* C4 (zero-count remove): remove of a sample whose bin is in range and
\* holds no sample changes nothing and reports a reject.
C4_ZeroCountRemoveRejected ==
    [][\A x \in Samples :
          (Remove(x) /\ InRange(x) /\ histogram[BinOf(x)] = 0)
          => (NothingChanged /\ last'.path = "reject")]_vars

\* the call that ends in e leaves every count, the population and every
\* range and samples_lower as they are
Unchanged(e) ==
    /\ e.histogram = histogram
    /\ e.population = population
    /\ SameQuantiles(e.quantiles, quantiles)

\* insert and remove of sample x, on the engine the state holds
InsertAndRemoveUnchanged(x) ==
    IF EdbAlive
    THEN Unchanged(edb_insert(Engine, x)) /\ Unchanged(edb_remove(Engine, x))
    ELSE /\ Unchanged(insert(Engine, binmin, x))
         /\ Unchanged(remove(Engine, binmin, x))

\* C5 (reject safety): in every state, insert and remove of a sample whose
\* bin index is outside [0, size) change no count, not the population, no
\* range and no samples_lower.
C5_RejectSafety ==
    \A x \in Samples : ~InRange(x) => InsertAndRemoveUnchanged(x)

\* C5 holds as long as no remove or replace has taken an absent sample
C5_WhenIntact == Intact => C5_RejectSafety

SameEngine(e1, e2) ==
    /\ e1.histogram = e2.histogram
    /\ e1.population = e2.population
    /\ SameQuantiles(e1.quantiles, e2.quantiles)

\* replace(x, y) ends as remove(y) followed by insert(x) does, and changes
\* nothing when x and y land in the same bin
ReplaceAgrees(x, y) ==
    /\ SameEngine(replace(Engine, binmin, x, y),
                  insert(remove(Engine, binmin, y), binmin, x))
    /\ (BinOf(x) = BinOf(y) => SameEngine(replace(Engine, binmin, x, y), Engine))

\* C6 (replace): with both samples in range and a sample present in the old
\* bin, replace leaves the counts, the population and every range and
\* samples_lower as remove(old) followed by insert(new) does; with equal
\* bins it changes nothing.
C6_ReplaceIsRemoveInsert ==
    \A x \in Samples : \A y \in Samples :
        (InRange(x) /\ InRange(y) /\ Signed(histogram[BinOf(y)]) > 0)
        => ReplaceAgrees(x, y)

\* C6 holds as long as no remove or replace has taken an absent sample
C6_WhenIntact == Intact => C6_ReplaceIsRemoveInsert

\* C7 (invalid registration): every registration path, given a list that
\* holds a fraction with numerator <= 0, denominator <= 0 or
\* numerator >= denominator, ends in the invalid-quantile error.
C7_InvalidRegistrationFails ==
    [][\A list \in RegLists :
          ((ConstructList(list) \/ AddQuantiles(list) \/ EdbConstruct(list))
             /\ \E k \in DOMAIN list : invalid_quantile(list[k]))
          => last'.path = "throw"]_vars

\* add_quantiles alone does end in the error for every invalid list
C7_AddQuantilesFails ==
    [][\A list \in RegLists :
          (AddQuantiles(list) /\ \E k \in DOMAIN list : invalid_quantile(list[k]))
          => last'.path = "throw"]_vars

\* an insert, remove, replace or recalculate has returned
Returned == last.op \in {"insert", "remove", "replace", "recalculate"}

\* C8 (idempotence): in every state an insert, remove, replace or
\* recalculate has returned in, adjust applied again to a tracked quantile
\* leaves its range and samples_lower as they are.
C8_AdjustIdempotent ==
    Returned =>
        \A k \in Tracked :
            SameQuantiles(<<adjust(quantiles[k], histogram, population)>>,
                          <<quantiles[k]>>)

\* C8 holds as long as no remove or replace has taken an absent sample
C8_WhenIntact == Intact => C8_AdjustIdempotent

\* C9 (range bounds): every tracked quantile has
\* 0 <= lower <= upper <= size - 1.
C9_RangeBounds ==
    \A k \in Tracked :
        /\ 0 <= quantiles[k].lower
        /\ quantiles[k].lower <= quantiles[k].upper
        /\ quantiles[k].upper <= bins(histogram) - 1

\* an insert has slid a quantile up to the last bin, and a split range
\* ends on the last bin
C9_Witness ==
    /\ Mutated /\ population > 0
    /\ \E k \in Tracked :
          quantiles[k].upper = bins(histogram) - 1 /\ quantiles[k].last_adjust = 1
    /\ \E k \in Tracked :
          quantiles[k].upper = bins(histogram) - 1
             /\ quantiles[k].lower < quantiles[k].upper

\* the samples in bins lo..hi, as a plain sum
SamplesIn(lo, hi) == SamplesBelow(histogram, hi + 1) - SamplesBelow(histogram, lo)

\* bins a < b are populated, every bin between them is empty, half of the
\* samples lie at or below a and half at or above b
EvenSplit(a, b) ==
    /\ a < b
    /\ histogram[a] > 0 /\ histogram[b] > 0
    /\ \A i \in (a + 1)..(b - 1) : histogram[i] = 0
    /\ population % 2 = 0
    /\ 2 * SamplesIn(0, a) = population
    /\ 2 * SamplesIn(b, bins(histogram) - 1) = population

IsMedian(q) == 2 * q.num = q.den

\* C10 (split range): when the samples split evenly around a run of empty
\* bins between populated bins a < b, a tracked median has lower = a and
\* upper = b.
C10_SplitRange ==
    \A a \in DOMAIN histogram : \A b \in DOMAIN histogram :
        EvenSplit(a, b) =>
            \A k \in Tracked :
                IsMedian(quantiles[k]) =>
                    /\ quantiles[k].lower # quantiles[k].upper
                    /\ quantiles[k].lower = a
                    /\ quantiles[k].upper = b

\* a call has left the samples split evenly around an empty bin, with the
\* median tracked
C10_Witness ==
    /\ Mutated /\ Intact
    /\ \E k \in Tracked : IsMedian(quantiles[k])
    /\ \E a \in DOMAIN histogram : \E b \in DOMAIN histogram :
          EvenSplit(a, b) /\ b > a + 1

\* C11 (rectangular scenario): after every insert of the run 0, 1, 2, ...
\* the tracked median is the range the reference scan returns, and after
\* all eight inserts it is (3, 4).
C11_RectangularUp ==
    (last.path = "ascending" /\ last.op = "insert") =>
        /\ MatchesScan(quantiles[1])
        /\ population = RectangularN =>
              quantiles[1].lower = 3 /\ quantiles[1].upper = 4

\* the run 0, 1, ..., 7 is complete
C11_Witness ==
    /\ last.path = "ascending" /\ last.op = "insert"
    /\ population = RectangularN
    /\ \A i \in DOMAIN histogram : histogram[i] = 1
    /\ IsMedian(quantiles[1])

\* the number of samples in the histogram, as a plain sum
TruePopulation == SamplesBelow(histogram, bins(histogram))

\* the counts of bins 0..b, as a plain sum
Lte(b) == SamplesBelow(histogram, b + 1)

\* the smallest bin b with lte(b) * den >= population * num, from bin b up
RECURSIVE SmallestBinFrom(_, _)
SmallestBinFrom(q, b) ==
    IF b + 1 >= bins(histogram) \/ Lte(b) * q.den >= TruePopulation * q.num
    THEN b ELSE SmallestBinFrom(q, b + 1)

SmallestBin(q) == SmallestBinFrom(q, 0)

IsReferenceRange(q, r) ==
    /\ r.lower = SmallestBin(q)
    /\ Lte(r.lower) * q.den > TruePopulation * q.num => r.upper = r.lower

\* C12 (reference scan): for every histogram holding at least one sample
\* (and no more than a count_t can hold) and every fraction 0 < num < den,
\* find_quantile_indexes returns as lower the smallest bin b with
\* lte(b) * den >= population * num, and upper = lower when the inequality
\* is strict at b.
C12_ReferenceScan ==
    (TruePopulation >= 1 /\ TruePopulation < CountMod) =>
        \A k \in Tracked :
            IsReferenceRange(quantiles[k],
                             find_quantile_indexes(histogram, quantiles[k]))

\* C12 holds for the histograms whose population * den fits a count_t
C12_WhenNoWrap ==
    \A k \in Tracked :
        (TruePopulation >= 1 /\ TruePopulation * quantiles[k].den < CountMod)
            => IsReferenceRange(quantiles[k],
                                find_quantile_indexes(histogram, quantiles[k]))

\* C12 for edb's find_quantile, whose products are size_t: it holds when the
\* cached population is the histogram's
C12_EdbFindQuantile ==
    (TruePopulation >= 1 /\ TruePopulation < CountMod
        /\ population = TruePopulation) =>
        \A k \in Tracked :
            IsReferenceRange(quantiles[k],
                edb_find_quantile(histogram, population,
                                  quantiles[k].num, quantiles[k].den))

\* the first bin above b that holds a sample, or the last bin
RECURSIVE NextOccupied(_)
NextOccupied(b) ==
    IF b + 1 >= bins(histogram) THEN b
    ELSE IF histogram[b + 1] # 0 THEN b + 1 ELSE NextOccupied(b + 1)

\* the quantile's range is the one its definition gives for the histogram
AtQuantile(q) ==
    /\ q.lower = SmallestBin(q)
    /\ q.upper = IF Lte(q.lower) * q.den = TruePopulation * q.num
                 THEN NextOccupied(q.lower) ELSE q.lower

\* The state is converged: the cached population and every samples_lower
\* are exact and every quantile is at its place; and a count_t holds the
\* population with one more sample.
Converged ==
    /\ population = TruePopulation
    /\ TruePopulation + 1 < CountMod
    /\ \A k \in Tracked :
          /\ AtQuantile(quantiles[k])
          /\ quantiles[k].samples_lower = SamplesBelow(histogram, quantiles[k].upper)

\* sample x is in range and its bin holds at least one sample
Present(x) == InRange(x) /\ Signed(histogram[BinOf(x)]) > 0

\* C13 (monotonicity): in a converged state holding two samples or more,
\* one insert lowers no
\* tracked quantile's lower or upper by more than 1 bin, and one remove of
\* a sample that is present raises neither by more than 1 bin.
C13_MovesOneBin ==
    (Converged /\ population >= 2) =>
        \A x \in Samples : \A k \in Tracked :
            LET q == quantiles[k]
                i == insert(Engine, binmin, x).quantiles[k]
                r == remove(Engine, binmin, x).quantiles[k]
            IN  /\ i.lower >= q.lower - 1 /\ i.upper >= q.upper - 1
                /\ Present(x) => r.lower <= q.lower + 1 /\ r.upper <= q.upper + 1

\* every bin strictly between bins a and b of histogram h is empty
EmptyBetween(h, a, b) ==
    \A j \in DOMAIN h : ((a < j /\ j < b) \/ (b < j /\ j < a)) => h[j] = 0

\* the quantile moved from q to r only across bins that are empty in h
MovedAcrossEmpty(h, q, r) ==
    EmptyBetween(h, q.lower, r.lower) /\ EmptyBetween(h, q.upper, r.upper)

\* C13 amended: from a converged state one insert, and one remove of a
\* sample that is present, move a tracked quantile's lower and upper only across bins that are
\* empty afterwards; the number of bins crossed is not bounded by 1.
C13_MovesAcrossEmptyBins ==
    Converged =>
    \A x \in Samples : \A k \in Tracked :
        LET i == insert(Engine, binmin, x)
            r == remove(Engine, binmin, x)
        IN  /\ MovedAcrossEmpty(i.histogram, quantiles[k], i.quantiles[k])
            /\ Present(x) =>
                  MovedAcrossEmpty(r.histogram, quantiles[k], r.quantiles[k])

\* a converged state in which one insert takes a quantile's upper bin down
\* by two bins or more
C13_Witness ==
    /\ Converged /\ population >= 2
    /\ \E x \in Samples : \E k \in Tracked :
          insert(Engine, binmin, x).quantiles[k].upper < quantiles[k].upper - 1

\* the call of adjust has returned
AdjustReturned == last.op = "adjust" /\ last.path = "return"

\* The steps of adjust end in the quantile the operator adjust computes.
AdjustStepsAgree ==
    AdjustReturned =>
        quantiles[1] = adjust(last.q0, histogram, population)

\* C14 (termination): a call of adjust, started with upper in [0, size) on
\* any histogram contents, executes at most size() loop bodies and returns.
C14_AdjustTerminates ==
    /\ [](last.op = "adjust" => last.iterations <= bins(histogram))
    /\ <>AdjustReturned

\* a call has returned after size() - 1 loop bodies
C14_Witness ==
    AdjustReturned /\ last.iterations = bins(histogram) - 1

\* recalculate() has just run on a histogram whose population a count_t holds
Recalculated == last.op = "recalculate" /\ TruePopulation < CountMod

\* C15 (overflow freedom): for every population a count_t can hold, also
\* when population * den exceeds the largest count_t, the quantile that
\* adjust settles on is the range find_quantile_indexes returns.
C15_AdjustAgreesWithScan ==
    Recalculated => \A k \in Tracked : MatchesScan(quantiles[k])

\* the two agree while population * den fits a count_t
C15_WhenNoWrap ==
    Recalculated =>
        \A k \in Tracked :
            TruePopulation * quantiles[k].den < CountMod
                => MatchesScan(quantiles[k])

\* adjust itself, whose products are size_t, settles on the quantile for
\* every population a count_t can hold
C15_AdjustExact ==
    Recalculated =>
        \A k \in Tracked :
            /\ AtQuantile(quantiles[k])
            /\ quantiles[k].samples_lower
                  = SamplesBelow(histogram, quantiles[k].upper)

\* replace(x, y) moves a sample that is present between two distinct bins
\* and skips the update of quantile q
SkippedMove(q, x, y) ==
    /\ InRange(x) /\ Present(y) /\ BinOf(x) # BinOf(y)
    /\ replace_skips(q, BinOf(x), BinOf(y))

\* C16 (replace skip): for a tracked quantile that matches the reference
\* scan and whose samples_lower is the count of the samples below upper, and
\* a replace between distinct in-range bins, of a sample that is present,
\* that skips it, the reference scan of the histogram after the replace is
\* still the quantile's range and the count below upper still its
\* samples_lower.
C16_ReplaceSkipSound ==
    \A k \in Tracked : \A x, y \in Samples :
        LET q == quantiles[k]
            e == replace(Engine, binmin, x, y)
            expected == find_quantile_indexes(e.histogram, q)
        IN  (/\ MatchesScan(q)
             /\ q.samples_lower = SamplesBelow(histogram, q.upper)
             /\ SkippedMove(q, x, y))
            => /\ expected.lower = q.lower /\ expected.upper = q.upper
               /\ SamplesBelow(e.histogram, q.upper) = q.samples_lower
               /\ SameQuantiles(<<e.quantiles[k]>>, <<q>>)

\* a correct quantile is skipped by a replace above it, and another by a
\* replace below it
C16_Witness ==
    /\ Returned /\ Intact
    /\ \E k \in Tracked : \E x, y \in Samples :
          /\ MatchesScan(quantiles[k]) /\ SkippedMove(quantiles[k], x, y)
          /\ BinOf(x) > quantiles[k].upper
    /\ \E k \in Tracked : \E x, y \in Samples :
          /\ MatchesScan(quantiles[k]) /\ SkippedMove(quantiles[k], x, y)
          /\ BinOf(x) < quantiles[k].lower

\* C16 holds in the states where population * den fits a count_t for every
\* tracked quantile
C16_WhenNoWrap ==
    (\A k \in Tracked : (TruePopulation + 1) * quantiles[k].den < CountMod)
        => C16_ReplaceSkipSound

\* After each insert, remove and replace of a present sample every tracked
\* quantile is at the range its definition gives, in exact arithmetic, also
\* on a filled histogram: adjust does not wrap where the scan does.
EquivalenceInExactArithmetic ==
    (Intact /\ Mutated /\ TruePopulation < CountMod) =>
        \A k \in Tracked : AtQuantile(quantiles[k])

\* adjust slid upward and returned, and its last comparison found
\* lte * den equal to population * num at the bin it stopped on
SlidUpToTie ==
    /\ AdjustReturned
    /\ quantiles[1].last_adjust = 1
    /\ (last.lte * quantiles[1].den) % SizeMod = lte_ratio_of(quantiles[1])

\* the last bin of the run of empty bins right after bin e, or e itself
\* when the bin after e holds samples or e is the last bin
RECURSIVE LastEmptyAfter(_)
LastEmptyAfter(e) ==
    IF e + 1 < bins(histogram) /\ histogram[e + 1] = 0
    THEN LastEmptyAfter(e + 1) ELSE e

\* C17 (tie of the upward slide): when adjust slides upward onto a bin e
\* where lte * den equals population * num, upper is the last bin of the
\* run of empty bins after e, or e when the next bin is not empty.
C17_UpperOnLastEmptyBin ==
    SlidUpToTie => quantiles[1].upper = LastEmptyAfter(quantiles[1].lower)

\* C17 amended: upper is the first bin after e that holds samples, or the
\* last bin of the histogram when every bin after e is empty.
C17_UpperOnNextOccupiedBin ==
    SlidUpToTie => quantiles[1].upper = NextOccupied(quantiles[1].lower)

\* the slide ended on a tie and upper went on to a bin that holds samples
C17_Witness ==
    /\ SlidUpToTie
    /\ quantiles[1].upper > quantiles[1].lower
    /\ histogram[quantiles[1].upper] > 0
    /\ last.q0.upper < quantiles[1].lower

\* q.recalculate has just run, with a hint inside the histogram, on an
\* empty histogram and population 0
RecalculatedEmptyAt(hint_index) ==
    /\ last.op = "quantile_recalculate" /\ last.hint_index = hint_index
    /\ hint_index < bins(histogram)
    /\ population = 0 /\ TruePopulation = 0

\* C18 (zero-population recalculate): recalculate of a quantile against a
\* histogram with population 0 and hint h leaves lower = upper = h and
\* samples_lower the sum of the counts below h.
C18_StaysOnHint ==
    \A h \in 0..Bins :
        RecalculatedEmptyAt(h) =>
            /\ quantiles[1].lower = h /\ quantiles[1].upper = h
            /\ quantiles[1].samples_lower = SamplesBelow(histogram, h)

\* C18 amended: whatever the hint, the range is the full span (0, size-1)
\* and samples_lower the sum of the counts below upper.
C18_FullSpanWhateverHint ==
    \A h \in 0..Bins :
        RecalculatedEmptyAt(h) =>
            /\ quantiles[1].lower = 0
            /\ quantiles[1].upper = bins(histogram) - 1
            /\ quantiles[1].samples_lower
                  = SamplesBelow(histogram, quantiles[1].upper)

\* recalculate ran with a hint strictly inside the histogram
C18_Witness ==
    \E h \in 1..(Bins - 2) :
        /\ RecalculatedEmptyAt(h)
        /\ quantiles[1].lower < h /\ h < quantiles[1].upper

\* the histogram holds no sample and the cached population is 0, right
\* after add_quantiles or after a remove
EmptiedOrFresh ==
    /\ population = 0
    /\ \A i \in DOMAIN histogram : histogram[i] = 0
    /\ last.op \in {"add_quantiles", "remove"}
    /\ last.path = "accept"

\* C19 (zero population): when the population is zero, right after
\* add_quantiles on an empty histogram and after removes have taken out the
\* last sample, every tracked quantile's range is the reference scan of the
\* empty histogram, the full span (0, size-1), and its samples_lower is 0.
C19_FullSpanAtZero ==
    EmptiedOrFresh =>
        \A k \in Tracked :
            /\ MatchesScan(quantiles[k])
            /\ quantiles[k].lower = 0
            /\ quantiles[k].upper = bins(histogram) - 1
            /\ quantiles[k].samples_lower = 0

\* a remove has taken out the last sample of a tracked histogram
C19_Witness ==
    /\ EmptiedOrFresh /\ last.op = "remove" /\ Intact
    /\ Len(quantiles) > 0

\* add_quantiles has just run on an empty histogram
C19_WitnessFresh ==
    EmptiedOrFresh /\ last.op = "add_quantiles" /\ Len(quantiles) > 0

\* the members after recalculate(): population, ranges and samples_lower
\* rebuilt from the histogram
RebuiltFromHistogram ==
    /\ population = TruePopulation
    /\ \A k \in Tracked :
          /\ MatchesScan(quantiles[k])
          /\ quantiles[k].samples_lower
                = SamplesBelow(histogram, quantiles[k].upper)

\* C20 (full reset): for any histogram contents (their sum a count_t) and
\* any stale population, range and samples_lower, after recalculate() the
\* cached population is the sum of the counts, every tracked range is the
\* reference scan and samples_lower is the count of the samples below upper.
C20_FullReset == Recalculated => RebuiltFromHistogram

\* C20 holds for the contents whose population * den fits a count_t
C20_WhenNoWrap ==
    (Recalculated
        /\ \A k \in Tracked : TruePopulation * quantiles[k].den < CountMod)
        => RebuiltFromHistogram

\* the counts of e are those of the state, but for d more in bin i
OnlyBinChanged(e, i, d) ==
    e.histogram = [histogram EXCEPT ![i] = (@ + d) % CountMod]

\* the counts of e are those of the state, but for one more in bin n and
\* one less in bin o
SampleMoved(e, n, o) ==
    e.histogram = [histogram EXCEPT ![n] = (@ + 1) % CountMod,
                                    ![o] = (@ - 1) % CountMod]

\* C21 (histogram effect): in count_t arithmetic, an accepted insert raises
\* the count of the sample's bin and the population by 1, an accepted
\* remove lowers both by 1, and a replace between two distinct bins in
\* range raises the count of the new bin by 1, lowers the count of the old
\* bin by 1 and leaves the population as it is; no other count changes.
C21_HistogramEffect ==
    /\ \A x \in Samples :
          LET e == insert(Engine, binmin, x)
          IN  e.acc => /\ InRange(x)
                       /\ OnlyBinChanged(e, BinOf(x), 1)
                       /\ e.population = (population + 1) % CountMod
    /\ \A x \in Samples :
          LET e == remove(Engine, binmin, x)
          IN  e.acc => /\ InRange(x)
                       /\ OnlyBinChanged(e, BinOf(x), -1)
                       /\ e.population = (population - 1) % CountMod
    /\ \A x \in Samples : \A y \in Samples :
          (InRange(x) /\ InRange(y) /\ BinOf(x) # BinOf(y)) =>
              LET e == replace(Engine, binmin, x, y)
              IN  /\ SampleMoved(e, BinOf(x), BinOf(y))
                  /\ e.population = population

\* a replace has just moved a sample between two bins, quantiles are
\* tracked, and a further insert, remove and replace would each be accepted
C21_Witness ==
    /\ last.op = "replace" /\ last.path = "move" /\ Intact
    /\ Len(quantiles) > 0 /\ population >= 2
    /\ \E x \in Samples : \E y \in Samples :
          /\ Present(y) /\ InRange(x) /\ BinOf(x) # BinOf(y)
          /\ insert(Engine, binmin, x).acc
          /\ remove(Engine, binmin, y).acc

\* C22 (bin-index-based updates): for every binning, also one whose bin
\* index is the sample value less a minimum, while every remove and replace
\* has taken a sample that was present, after each insert, remove and
\* replace the counts add up to the population and every tracked quantile
\* has the range of the reference scan and a samples_lower equal to the
\* number of samples in the bins below range.upper.
C22_BinIndexUpdates ==
    (Intact /\ Mutated) =>
        /\ population = TruePopulation
        /\ \A k \in Tracked :
              /\ MatchesScan(quantiles[k])
              /\ quantiles[k].samples_lower
                    = SamplesBelow(histogram, quantiles[k].upper)

\* the same statement for the binning whose bin index is the sample value
C22_WhenIndexIsValue == binmin = 0 => C22_BinIndexUpdates

\* index i is a bin of the histogram
Inside(i) == i >= 0 /\ i < bins(histogram)

\* C23 (no out-of-bounds access): for a histogram of one bin or more and a
\* range inside [0, size - 1], at every point of adjust the bin cursor and
\* both bounds of the range, which are the indexes adjust reads counts at,
\* lie in [0, size); so do the bin quantile recalculate starts adjust from,
\* whatever the hint, and the bins the reference scan ends on.
C23_ReadsInside ==
    /\ last.op = "adjust" =>
          /\ Inside(last.bin)
          /\ Inside(quantiles[1].lower)
          /\ Inside(quantiles[1].upper)
    /\ \A hint_index \in 0..(Bins + 1) :
          /\ Inside(clamp_hint(histogram, hint_index))
          /\ clamp_hint(histogram, hint_index) <= hint_index
    /\ LET r == find_quantile_indexes(histogram, quantiles[1])
       IN  Inside(r.lower) /\ Inside(r.upper)

\* adjust has returned after sliding up, one bin a step, to the last bin
C23_Witness ==
    /\ AdjustReturned
    /\ quantiles[1].last_adjust = 1
    /\ last.q0.upper = 0
    /\ last.bin = bins(histogram) - 1
    /\ last.iterations >= bins(histogram) - 1

\* adjust has returned after sliding down, one bin a step, to the first bin
C23_WitnessDown ==
    /\ AdjustReturned
    /\ quantiles[1].last_adjust = -1
    /\ last.q0.upper = bins(histogram) - 1
    /\ last.bin = 0

\* the loop bodies of an adjust that finds a one-bin range in place: one
\* of the downward and one of the upward expansion
FixedSteps == 2

Distance(a, b) == IF a >= b THEN a - b ELSE b - a

Largest(a, b) == IF a >= b THEN a ELSE b

Smallest(a, b) == IF a <= b THEN a ELSE b

\* the bins by which the bounds of the range differ before and after
Drift ==
    Distance(quantiles[1].lower, last.q0.lower)
        + Distance(quantiles[1].upper, last.q0.upper)

\* the bins between range.upper before the call and the bounds after it
Span ==
    Largest(last.q0.upper, quantiles[1].upper)
        - Smallest(last.q0.upper, quantiles[1].lower)

\* C24 as stated (work proportional to drift): the loop bodies of one adjust
\* call number at most a constant plus the bins by which the bounds of the
\* range moved; an adjust that leaves both bounds in place runs a constant
\* number of them.
C24_WorkProportionalToDrift ==
    AdjustReturned => last.iterations <= FixedSteps + Drift

\* C24 amended: the loop bodies of one adjust call number at most a constant
\* plus the bins between range.upper before the call and the bounds of the
\* range after it, which counts the width of the range; an adjust that
\* leaves both bounds in place runs at least one body for each bin between
\* them.
C24_WorkWithinSpan ==
    AdjustReturned =>
        /\ last.iterations <= FixedSteps + Span
        /\ Drift = 0 =>
              last.iterations >= quantiles[1].upper - quantiles[1].lower

\* adjust has returned leaving a range of the whole histogram in place,
\* after a loop body for every bin of it
C24_Witness ==
    /\ AdjustReturned
    /\ Drift = 0
    /\ population > 0
    /\ quantiles[1].lower = 0
    /\ quantiles[1].upper = bins(histogram) - 1
    /\ last.iterations >= bins(histogram) - 1

\* quantile::recalculate has returned: adjust ran once from the hint bin,
\* with samples_lower the count below it, on a histogram of one sample or
\* more whose population is the one passed in
RecalculatedFromHint ==
    /\ last.op = "quantile_recalculate"
    /\ population = TruePopulation
    /\ TruePopulation >= 1

\* quantile::recalculate ends the same from every hint
SameFromEveryHint ==
    \A a \in 0..Bins : \A b \in 0..Bins :
        SameQuantiles(
            << recalculate_quantile(quantiles[1], histogram, population, a).q >>,
            << recalculate_quantile(quantiles[1], histogram, population, b).q >>)

\* C25 (convergence from any bin): on a histogram of one sample or more,
\* one adjust from any bin u with samples_lower the count below u ends on
\* the range find_quantile_indexes returns, with samples_lower the count
\* below the new upper; quantile recalculate ends the same from every hint.
C25_ConvergesFromAnyBin ==
    RecalculatedFromHint =>
        /\ MatchesScan(quantiles[1])
        /\ quantiles[1].samples_lower
              = SamplesBelow(histogram, quantiles[1].upper)
        /\ SameFromEveryHint

\* the same while population * den fits a count_t
C25_WhenNoWrap ==
    (RecalculatedFromHint /\ TruePopulation * quantiles[1].den < CountMod)
        => /\ MatchesScan(quantiles[1])
           /\ quantiles[1].samples_lower
                 = SamplesBelow(histogram, quantiles[1].upper)
           /\ SameFromEveryHint

\* adjust itself ends, from any bin, on the range the definition of the
\* quantile gives, for every population a count_t can hold
C25_AdjustExact ==
    RecalculatedFromHint =>
        /\ AtQuantile(quantiles[1])
        /\ quantiles[1].samples_lower
              = SamplesBelow(histogram, quantiles[1].upper)
        /\ SameFromEveryHint

\* every range and samples_lower is the one recalculate derives from the
\* counts alone
DerivedFromCounts(e) ==
    SameQuantiles(e.quantiles,
                  recalculate([histogram  |-> e.histogram,
                               population |-> e.population,
                               quantiles  |-> e.quantiles]).quantiles)

\* insert(x) followed by remove(x) leaves every range and samples_lower as
\* it was
InsertRemoveRestores(x) ==
    LET e == remove(insert(Engine, binmin, x), binmin, x)
    IN  e.histogram = histogram /\ SameQuantiles(e.quantiles, quantiles)

\* C26 (history independence): while every remove and replace has taken a
\* sample that was present, every tracked quantile's range and
\* samples_lower are a function of the counts, the one recalculate
\* computes, so two runs that end on the same counts end on the same
\* ranges and samples_lower; and insert(i) followed by remove(i) restores
\* every range and samples_lower.
C26_HistoryIndependence ==
    Intact =>
        /\ DerivedFromCounts(Engine)
        /\ \A x \in Samples : InRange(x) => InsertRemoveRestores(x)

\* a remove has just returned, two samples or more remain, and a tracked
\* quantile lies on a range of several bins
C26_Witness ==
    /\ Intact /\ last.op = "remove" /\ last.path = "accept"
    /\ population >= 2
    /\ \E k \in Tracked : quantiles[k].lower < quantiles[k].upper
    /\ \E k \in Tracked : quantiles[k].lower = quantiles[k].upper

\* C27 (failed registration): when add_quantiles is given a list that holds
\* an invalid fraction and throws, the tracked quantiles are the ones
\* tracked before the call: no quantile of the list is left registered.
C27_FailedRegistrationChangesNothing ==
    [][\A list \in RegLists :
          (AddQuantiles(list) /\ last'.path = "throw")
          => quantiles' = quantiles]_vars

\* a sample_t between whole numbers is written as a count of halves
HalfSamples == (2 * binmin - 2)..(2 * (binmin + Bins) + 1)

\* binning::index on a sample_t given in halves: reject(v), else the bin of v
index_for_halves(h, min, halves) ==
    IF halves < 2 * min \/ halves >= 2 * (min + bins(h)) THEN BIN_REJECT
    ELSE (halves - 2 * min) \div 2

\* the conversion of a sample_t argument to index_t: towards zero
to_index_t(halves) ==
    IF halves >= 0 THEN halves \div 2 ELSE 0 - ((0 - halves) \div 2)

\* histogram_tracked::remove on a sample_t given in halves
remove_halves(e, min, old_halves) ==
    LET i   == index_for_halves(e.histogram, min, old_halves)
        h2  == IF i = BIN_REJECT THEN e.histogram
               ELSE [e.histogram EXCEPT ![i] = (@ - 1) % CountMod]
        p2  == (e.population - 1) % CountMod
    IN  IF i # BIN_REJECT
        THEN [histogram  |-> h2,
              population |-> p2,
              quantiles  |-> [k \in DOMAIN e.quantiles |->
                  adjust([e.quantiles[k] EXCEPT !.samples_lower =
                             IF old_halves < 2 * e.quantiles[k].upper
                             THEN (@ - 1) % CountMod ELSE @],
                         h2, p2)],
              acc |-> TRUE]
        ELSE [histogram  |-> e.histogram,
              population |-> e.population,
              quantiles  |-> [k \in DOMAIN e.quantiles |->
                  [e.quantiles[k] EXCEPT !.last_adjust = -3]],
              acc |-> FALSE]

\* the call replace(new_sample, old_sample) with a sample_t for old_sample:
\* the parameter is an index_t, so the argument is converted on the way in
replace_call(e, min, new_sample, old_halves) ==
    replace(e, min, new_sample, to_index_t(old_halves))

RejectedSide(new_sample, old_halves) ==
    LET new_index == index_for(histogram, binmin, new_sample)
        old_index == index_for_halves(histogram, binmin, old_halves)
        r         == replace_call(Engine, binmin, new_sample, old_halves)
    IN  /\ (new_index = BIN_REJECT /\ old_index # BIN_REJECT)
           => /\ SameEngine(r, remove_halves(Engine, binmin, old_halves))
              /\ r.population = (population - 1) % CountMod
        /\ (new_index # BIN_REJECT /\ old_index = BIN_REJECT)
           => /\ SameEngine(r, insert(Engine, binmin, new_sample))
              /\ r.population = (population + 1) % CountMod
        /\ (new_index = BIN_REJECT /\ old_index = BIN_REJECT)
           => SameEngine(r, Engine)

\* C28 (replace with a rejected side): replace(new, old) with new mapping
\* to no bin and old in range has the effect of remove(old), the population
\* one less; with old mapping to no bin and new in range it has the effect
\* of insert(new), the population one more; with both mapping to no bin no
\* bin count, population, range or samples_lower changes.
C28_RejectedSide ==
    \A new_sample \in Samples : \A old_halves \in HalfSamples :
        RejectedSide(new_sample, old_halves)

\* C28 holds when the old sample is a whole number
C28_WhenWhole ==
    \A new_sample \in Samples : \A old_sample \in Samples :
        RejectedSide(new_sample, 2 * old_sample)

\* p <= q on two quantile fractions, by cross-multiplication
FractionLte(p, q) == p.num * q.den <= q.num * p.den

OrderedPair(p, q) ==
    /\ FractionLte(p, q) => (p.lower <= q.lower /\ p.upper <= q.upper)
    /\ (FractionLte(p, q) /\ FractionLte(q, p))
       => /\ p.lower = q.lower
          /\ p.upper = q.upper
          /\ p.samples_lower = q.samples_lower

\* C29 (ordering across quantiles): after every operation, for two tracked
\* quantiles with fractions p <= q, p's lower bound is at most q's and p's
\* upper bound is at most q's; two quantiles with equal fractions written
\* differently (1/2 and 2/4) have the same range and samples_lower.
C29_OrderedAcrossQuantiles ==
    \A j \in Tracked : \A k \in Tracked : OrderedPair(quantiles[j], quantiles[k])

\* C29 holds as long as no remove or replace has taken an absent sample
C29_WhenIntact == Intact => C29_OrderedAcrossQuantiles

\* range.is_range()
is_range(q) == q.lower # q.upper

ConvergedShape(q) ==
    /\ histogram[q.lower] # 0
    /\ is_range(q) <=> (Lte(q.lower) * q.den = population * q.num)
    /\ is_range(q)
       => /\ histogram[q.upper] # 0
          /\ \A b \in (q.lower + 1)..(q.upper - 1) : histogram[b] = 0

\* C30 (shape of a converged range): in every state with a population of at
\* least 1 that an operation has returned to, for every tracked quantile
\* the bin range.lower holds a sample; the range is a proper range exactly
\* when (samples in the bins up to range.lower) * denominator equals
\* population * numerator; and then the bin range.upper holds a sample and
\* every bin strictly between the two is empty.
C30_ConvergedShape ==
    (population >= 1 /\ (Returned \/ last.op = "add_quantiles"))
        => \A k \in Tracked : ConvergedShape(quantiles[k])

\* C30 holds as long as no remove or replace has taken an absent sample
C30_WhenIntact == Intact => C30_ConvergedShape

\* C30 holds of the quantiles with a valid fraction in SpecRegister
C30_WhenIntactAndValid ==
    (Intact /\ population >= 1 /\ (Returned \/ last.op = "add_quantiles"))
        => \A k \in Tracked :
              ~invalid_quantile(quantiles[k]) => ConvergedShape(quantiles[k])

=============================================================================
